---- MODULE Spec2Model ----
(***************************************************************************)
(* A model of tensorflow/python/autograph/core/converter.py:               *)
(*   - converter.Base.visit (single-use converters),                       *)
(*   - ProgramContext (name map, conversion cache, required imports),      *)
(*   - Base.get_definition_directive,                                      *)
(*   - ConversionOptions (uses, to_ast),                                   *)
(*   - standard_analysis and apply_,                                       *)
(*   - two ProgramContext objects merging the same namers in both orders.  *)
(* Each component has its own variables and its own specification; the     *)
(* other components' variables rest at their constructed values.           *)
(***************************************************************************)
EXTENDS Integers, Sequences, FiniteSets, TLC

VARIABLES
  \* converter.Base
  used,               \* self._used
  ast_depth,          \* self._ast_depth
  vstack,             \* the active visit calls, outermost first (their nodes)
  raising,            \* an exception is propagating out of the traversal
  last_visit,         \* what the last call of visit did
  outer_calls,        \* how many outermost calls of visit were made
  \* ProgramContext
  name_map,           \* self.name_map
  conversion_order,   \* self.conversion_order
  dependency_cache,   \* self.dependency_cache
  additional_imports, \* self.additional_imports
  cache_calls,        \* the add_to_cache calls made, in call order
  prog_result,        \* what the last ProgramContext operation returned or raised
  \* Base.get_definition_directive
  dd_node,            \* the node asked about: its annotations
  dd_directive,       \* the directive asked about
  dd_arg,             \* the directive argument asked about
  dd_result,          \* what get_definition_directive returned or raised
  \* ConversionOptions
  opt_features_arg,   \* the optional_features argument the options were built with
  opts,               \* the ConversionOptions object
  uses_result,        \* the last uses(feature) query and its answer
  opt_ns,             \* the namespace given to to_ast
  opt_ast,            \* what to_ast returned or raised
  opts2,              \* what evaluating the expression of to_ast gave
  \* standard_analysis and apply_
  an_nodes,           \* the symbol nodes of the entity's tree
  an_defs,            \* anno.Static.DEFINITIONS of each node that has it
  an_orig,            \* anno.Static.ORIG_DEFINITIONS of each node that has it
  an_heap,            \* the directives of each AnnotatedDef object in use
  an_runs,            \* how many times reaching definitions were resolved
  an_result,          \* what the last standard_analysis or apply_ call did
  \* two ProgramContext objects given the same two namers in opposite orders
  mo_init,            \* the name_map both contexts start from
  mo_namers,          \* the two namers, N1 and N2
  mo_ctx              \* the two contexts: name_map and the outcome of each call made

visitVars == <<used, ast_depth, vstack, raising, last_visit, outer_calls>>
progVars == <<name_map, conversion_order, dependency_cache, additional_imports,
              cache_calls, prog_result>>
ddVars == <<dd_node, dd_directive, dd_arg, dd_result>>
optVars == <<opt_features_arg, opts, uses_result, opt_ns, opt_ast, opts2>>
anVars == <<an_nodes, an_defs, an_orig, an_heap, an_runs, an_result>>
moVars == <<mo_init, mo_namers, mo_ctx>>
vars == <<visitVars, progVars, ddVars, optVars, anVars, moVars>>

(***************************************************************************)
(* Bounds of the model.                                                    *)
(***************************************************************************)
MaxDepth == 3
MaxOuterCalls == 3
MaxRenames == 2
MaxCacheCalls == 2
MaxDefs == 3
MaxDecorators == 2
MaxRuns == 2

(***************************************************************************)
(* Generic helpers: Python dicts are functions on their key set.           *)
(***************************************************************************)
EmptyDict == <<>>

DictPut(d, k, v) == [x \in (DOMAIN d) \cup {k} |-> IF x = k THEN v ELSE d[x]]

\* The dicts with keys in K and values in V.
Dicts(K, V) == UNION {[S -> V] : S \in SUBSET K}

Orderings(S) ==
  {s \in [1..Cardinality(S) -> S] : \A i, j \in 1..Cardinality(S) : s[i] = s[j] => i = j}

(***************************************************************************)
(* converter.Base: __init__ and visit.                                     *)
(***************************************************************************)
Nodes == {"n1", "n2", "n3"}

NoVisit == [outcome |-> "none", node |-> "none", depth |-> 0]

BaseInit ==
  /\ used = FALSE
  /\ ast_depth = 0
  /\ vstack = <<>>
  /\ raising = FALSE
  /\ last_visit = NoVisit
  /\ outer_calls = 0

\* visit without the assignment self._used = True.
visit_never_used(node) ==
  /\ ~raising
  /\ Len(vstack) < MaxDepth
  /\ vstack = <<>> => outer_calls < MaxOuterCalls
  /\ outer_calls' = IF vstack = <<>> THEN outer_calls + 1 ELSE outer_calls
  /\ IF ast_depth = 0 /\ used
       THEN /\ last_visit' = [outcome |-> "reuse_error", node |-> node, depth |-> ast_depth]
            /\ raising' = (vstack # <<>>)
            /\ UNCHANGED <<used, ast_depth, vstack>>
       ELSE /\ ast_depth' = ast_depth + 1
            /\ vstack' = Append(vstack, node)
            /\ last_visit' = [outcome |-> "accepted", node |-> node, depth |-> ast_depth]
            /\ UNCHANGED <<used, raising>>

\* visit up to the call of super().visit(node): the reuse check, made only when
\* the depth counter is 0, then the increment of the depth counter.
visit(node) ==
  /\ ~raising
  /\ Len(vstack) < MaxDepth
  /\ vstack = <<>> => outer_calls < MaxOuterCalls
  /\ outer_calls' = IF vstack = <<>> THEN outer_calls + 1 ELSE outer_calls
  /\ IF ast_depth = 0 /\ used
       THEN /\ last_visit' = [outcome |-> "reuse_error", node |-> node, depth |-> ast_depth]
            /\ raising' = (vstack # <<>>)
            /\ UNCHANGED <<used, ast_depth, vstack>>
       ELSE /\ used' = IF ast_depth = 0 THEN TRUE ELSE used
            /\ ast_depth' = ast_depth + 1
            /\ vstack' = Append(vstack, node)
            /\ last_visit' = [outcome |-> "accepted", node |-> node, depth |-> ast_depth]
            /\ UNCHANGED raising

\* The finally clause of the innermost active visit.
VisitFinally ==
  /\ ast_depth' = ast_depth - 1
  /\ vstack' = SubSeq(vstack, 1, Len(vstack) - 1)

\* super().visit(node) returns in the innermost active call.
visit_return ==
  /\ ~raising
  /\ vstack # <<>>
  /\ VisitFinally
  /\ last_visit' = [outcome |-> "returned", node |-> vstack[Len(vstack)], depth |-> ast_depth]
  /\ UNCHANGED <<used, raising, outer_calls>>

\* An exception leaving visit with the decrement of the depth counter skipped,
\* as when the decrement is not in a finally clause.
visit_raise_no_finally ==
  /\ vstack # <<>>
  /\ vstack' = SubSeq(vstack, 1, Len(vstack) - 1)
  /\ raising' = (Len(vstack) > 1)
  /\ last_visit' = [outcome |-> "raised", node |-> vstack[Len(vstack)], depth |-> ast_depth]
  /\ UNCHANGED <<used, ast_depth, outer_calls>>

\* super().visit(node) raises in the innermost active call, or an exception
\* raised further in propagates through it.
visit_raise ==
  /\ vstack # <<>>
  /\ VisitFinally
  /\ raising' = (Len(vstack) > 1)
  /\ last_visit' = [outcome |-> "raised", node |-> vstack[Len(vstack)], depth |-> ast_depth]
  /\ UNCHANGED <<used, outer_calls>>

NextVisit ==
  \/ \E node \in Nodes : visit(node) /\ UNCHANGED <<progVars, ddVars, optVars, anVars, moVars>>
  \/ visit_return /\ UNCHANGED <<progVars, ddVars, optVars, anVars, moVars>>
  \/ visit_raise /\ UNCHANGED <<progVars, ddVars, optVars, anVars, moVars>>

(***************************************************************************)
(* ProgramContext.                                                         *)
(***************************************************************************)
Entities == {"A", "B"}
Names == {"B_2", "B_3"}
Trees == {"t1", "t2"}
Imports == {"import x", "import y"}

\* config.COMPILED_IMPORT_STATEMENTS: the fixed boilerplate import statements.
COMPILED_IMPORT_STATEMENTS == <<"from __future__ import print_function", "import tensorflow as tf">>

\* namer.renamed_calls: a dict, given by its items in iteration order.
Namers ==
  {items \in UNION {[1..n -> Entities \X Names] : n \in 0..MaxRenames} :
     \A i, j \in 1..Len(items) : items[i][1] = items[j][1] => i = j}

NoResult == [op |-> "none", status |-> "ok"]

ProgramContextInit ==
  /\ conversion_order = <<>>
  /\ dependency_cache = EmptyDict
  /\ additional_imports = {}
  /\ name_map = EmptyDict
  /\ cache_calls = <<>>
  /\ prog_result = NoResult

\* str.join
RECURSIVE Join(_, _)
Join(sep, strs) ==
  IF strs = <<>> THEN ""
  ELSE IF Len(strs) = 1 THEN strs[1]
  ELSE strs[1] \o sep \o Join(sep, Tail(strs))

\* required_imports computed from the boilerplate alone.
RequiredImportsText_boilerplate(order) == Join("\n", COMPILED_IMPORT_STATEMENTS)

\* The value of the required_imports property, with the set additional_imports
\* iterated in the given order.
RequiredImportsText(order) == Join("\n", COMPILED_IMPORT_STATEMENTS \o order)

required_imports ==
  /\ \E order \in Orderings(additional_imports) :
       prog_result' = [op |-> "required_imports", status |-> "ok",
                       value |-> RequiredImportsText(order)]
  /\ UNCHANGED <<name_map, conversion_order, dependency_cache, additional_imports,
                 cache_calls>>

\* A pass adds an import: self.ctx.program.additional_imports.add(imp).
add_import(imp) ==
  /\ additional_imports' = additional_imports \cup {imp}
  /\ prog_result' = [op |-> "add_import", status |-> "ok"]
  /\ UNCHANGED <<name_map, conversion_order, dependency_cache, cache_calls>>

\* The namespaces a namer is made for.
NamerNamespaces == {"ns1", "ns2"}

\* self.options.recursive and self.partial_types of the context, as constructed.
ProgramRecursive == TRUE

ProgramPartialTypes == <<>>

\* naming.Namer(global_namespace, recursive, name_map, partial_types): the new
\* namer starts with a copy of name_map as its renamed calls.
Namer(global_namespace, recursive, nm, partial_types) ==
  [global_namespace |-> global_namespace, recursive |-> recursive,
   renamed_calls |-> nm, partial_types |-> partial_types]

\* new_namer passing no name map to the namer.
new_namer_unseeded(namespace) ==
  /\ prog_result' = [op |-> "new_namer", status |-> "ok",
                     namer |-> Namer(namespace, ProgramRecursive, EmptyDict,
                                     ProgramPartialTypes)]
  /\ UNCHANGED <<name_map, conversion_order, dependency_cache, additional_imports,
                 cache_calls>>

new_namer(namespace) ==
  /\ prog_result' = [op |-> "new_namer", status |-> "ok",
                     namer |-> Namer(namespace, ProgramRecursive, name_map,
                                     ProgramPartialTypes)]
  /\ UNCHANGED <<name_map, conversion_order, dependency_cache, additional_imports,
                 cache_calls>>

\* The loop with the later name overwriting the earlier one.
RECURSIVE MergeRenames_overwrite(_, _, _)
MergeRenames_overwrite(nm, items, i) ==
  IF i > Len(items) THEN [map |-> nm, status |-> "ok"]
  ELSE MergeRenames_overwrite(DictPut(nm, items[i][1], items[i][2]), items, i + 1)

\* The loop raising for every entity already in the map, whatever its name.
RECURSIVE MergeRenames_strict(_, _, _)
MergeRenames_strict(nm, items, i) ==
  IF i > Len(items) THEN [map |-> nm, status |-> "ok"]
  ELSE LET o == items[i][1]
           name == items[i][2]
       IN IF o \in DOMAIN nm
            THEN [map |-> nm, status |-> "ValueError", entity |-> o,
                  names |-> <<name, nm[o]>>]
            ELSE MergeRenames_strict(DictPut(nm, o, name), items, i + 1)

\* The loop checking every remaining pair before merging any: a conflict
\* leaves the map as it was.
RECURSIVE MergeRenames_validate_first(_, _, _)
MergeRenames_validate_first(nm, items, i) ==
  LET conflicting == {j \in i..Len(items) :
                        items[j][1] \in DOMAIN nm /\ nm[items[j][1]] # items[j][2]}
  IN IF i > Len(items) THEN [map |-> nm, status |-> "ok"]
     ELSE IF conflicting # {}
       THEN LET j == CHOOSE k \in conflicting : \A l \in conflicting : k <= l
            IN [map |-> nm, status |-> "ValueError", entity |-> items[j][1],
                names |-> <<items[j][2], nm[items[j][1]]>>]
       ELSE MergeRenames_validate_first(
              IF items[i][1] \in DOMAIN nm THEN nm ELSE DictPut(nm, items[i][1], items[i][2]),
              items, i + 1)

\* The loop of update_name_map from item i on: the map it leaves and the error
\* it raises, if any.
RECURSIVE MergeRenames(_, _, _)
MergeRenames(nm, items, i) ==
  IF i > Len(items) THEN [map |-> nm, status |-> "ok"]
  ELSE LET o == items[i][1]
           name == items[i][2]
       IN IF o \in DOMAIN nm
            THEN IF nm[o] # name
                   THEN [map |-> nm, status |-> "ValueError", entity |-> o,
                         names |-> <<name, nm[o]>>]
                   ELSE MergeRenames(nm, items, i + 1)
            ELSE MergeRenames(DictPut(nm, o, name), items, i + 1)

update_name_map(namer) ==
  LET r == MergeRenames(name_map, namer, 1)
  IN /\ name_map' = r.map
     /\ prog_result' = IF r.status = "ok"
                         THEN [op |-> "update_name_map", status |-> "ok"]
                         ELSE [op |-> "update_name_map", status |-> "ValueError",
                               entity |-> r.entity, names |-> r.names]
     /\ UNCHANGED <<conversion_order, dependency_cache, additional_imports, cache_calls>>

\* add_to_cache keeping only the entry of the entity just added.
add_to_cache_evicting(original_entity, converted_ast) ==
  /\ Len(cache_calls) < MaxCacheCalls
  /\ conversion_order' = Append(conversion_order, original_entity)
  /\ dependency_cache' = DictPut(EmptyDict, original_entity, converted_ast)
  /\ cache_calls' = Append(cache_calls, <<original_entity, converted_ast>>)
  /\ prog_result' = [op |-> "add_to_cache", status |-> "ok"]
  /\ UNCHANGED <<name_map, additional_imports>>

\* add_to_cache appending to conversion_order only an entity not yet cached.
add_to_cache_once_in_order(original_entity, converted_ast) ==
  /\ Len(cache_calls) < MaxCacheCalls
  /\ conversion_order' = IF original_entity \in DOMAIN dependency_cache
                            THEN conversion_order
                            ELSE Append(conversion_order, original_entity)
  /\ dependency_cache' = DictPut(dependency_cache, original_entity, converted_ast)
  /\ cache_calls' = Append(cache_calls, <<original_entity, converted_ast>>)
  /\ prog_result' = [op |-> "add_to_cache", status |-> "ok"]
  /\ UNCHANGED <<name_map, additional_imports>>

\* add_to_cache keeping the first tree cached for an entity.
add_to_cache_keep_first(original_entity, converted_ast) ==
  /\ Len(cache_calls) < MaxCacheCalls
  /\ conversion_order' = Append(conversion_order, original_entity)
  /\ dependency_cache' = IF original_entity \in DOMAIN dependency_cache
                            THEN dependency_cache
                            ELSE DictPut(dependency_cache, original_entity, converted_ast)
  /\ cache_calls' = Append(cache_calls, <<original_entity, converted_ast>>)
  /\ prog_result' = [op |-> "add_to_cache", status |-> "ok"]
  /\ UNCHANGED <<name_map, additional_imports>>

add_to_cache(original_entity, converted_ast) ==
  /\ Len(cache_calls) < MaxCacheCalls
  /\ conversion_order' = Append(conversion_order, original_entity)
  /\ dependency_cache' = DictPut(dependency_cache, original_entity, converted_ast)
  /\ cache_calls' = Append(cache_calls, <<original_entity, converted_ast>>)
  /\ prog_result' = [op |-> "add_to_cache", status |-> "ok"]
  /\ UNCHANGED <<name_map, additional_imports>>

NextProgram ==
  \/ required_imports /\ UNCHANGED <<visitVars, ddVars, optVars, anVars, moVars>>
  \/ \E imp \in Imports : add_import(imp) /\ UNCHANGED <<visitVars, ddVars, optVars, anVars, moVars>>
  \/ \E namespace \in NamerNamespaces : new_namer(namespace) /\ UNCHANGED <<visitVars, ddVars, optVars, anVars, moVars>>
  \/ \E namer \in Namers : update_name_map(namer) /\ UNCHANGED <<visitVars, ddVars, optVars, anVars, moVars>>
  \/ \E e \in Entities, t \in Trees : add_to_cache(e, t) /\ UNCHANGED <<visitVars, ddVars, optVars, anVars, moVars>>

(***************************************************************************)
(* Two ProgramContext objects that start from the same name_map and are    *)
(* given the same two namers, the first N1 then N2, the second N2 then N1. *)
(***************************************************************************)
\* The values name_map can have: every one of them is reached by
\* update_name_map calls.
NameMaps == Dicts(Entities, Names)

\* A ProgramContext whose name_map is nm, before the two calls.
NewContext(nm) == [name_map |-> nm, results |-> <<>>]

\* The namer context c is given in its k-th call.
NamerOf(c, k) == IF c = 1 THEN mo_namers[k] ELSE mo_namers[3 - k]

\* No pair of contexts is under comparison.
MergeIdle ==
  /\ mo_init = EmptyDict
  /\ mo_namers = <<<<>>, <<>>>>
  /\ mo_ctx = <<NewContext(EmptyDict), NewContext(EmptyDict)>>

\* The inputs: a name_map and two namers.
MergeInit ==
  /\ mo_init \in NameMaps
  /\ mo_namers \in Namers \X Namers
  /\ mo_ctx = <<NewContext(mo_init), NewContext(mo_init)>>

\* update_name_map(namer) on context c, with the next namer of its order. A
\* caller that catches the error of the first call goes on to the second.
update_name_map_in(c) ==
  LET k == Len(mo_ctx[c].results) + 1
      r == MergeRenames(mo_ctx[c].name_map, NamerOf(c, k), 1)
  IN /\ k <= 2
     /\ mo_ctx' = [mo_ctx EXCEPT ![c] =
                     [name_map |-> r.map,
                      results |-> Append(@.results,
                        IF r.status = "ok"
                          THEN [op |-> "update_name_map", status |-> "ok"]
                          ELSE [op |-> "update_name_map", status |-> "ValueError",
                                entity |-> r.entity, names |-> r.names])]]
     /\ UNCHANGED <<mo_init, mo_namers>>

NextMerge ==
  \E c \in {1, 2} : update_name_map_in(c) /\ UNCHANGED <<visitVars, progVars, ddVars, optVars, anVars>>


(***************************************************************************)
(* Base.get_definition_directive.                                          *)
(***************************************************************************)
Directives == {"set_element_type", "set_loop_options"}
Args == {"dtype", "shape"}

\* Directive argument values are syntax trees: an object (id) with a structure
\* (src, its source text). The first two are equal in structure.
Values == {[id |-> 1, src |-> "1"], [id |-> 2, src |-> "1"], [id |-> 3, src |-> "2"]}

\* The argument default of the caller.
Default == [id |-> 0, src |-> "None"]

\* def_.directives[directive], a dict from argument to value.
ArgDicts ==
  {am \in Dicts(Args, Values) : "shape" \in DOMAIN am => am["shape"].id = 1}

\* def_.directives of an AnnotatedDef.
DirectiveDicts ==
  {dm \in Dicts(Directives, ArgDicts) :
     "set_loop_options" \in DOMAIN dm =>
        (DOMAIN dm["set_loop_options"] = {"dtype"} /\ dm["set_loop_options"]["dtype"].id = 3)}

\* AnnotatedDef: a reaching definition with its directives.
AnnotatedDef == [directives : DirectiveDicts]

DefTuples == UNION {[1..n -> AnnotatedDef] : n \in 0..MaxDefs}

\* A node is the dict of its annotations.
DirectiveNodes == {EmptyDict} \cup {[k \in {"ORIG_DEFINITIONS"} |-> defs] : defs \in DefTuples}

\* anno.getanno(node, key, default)
getanno(node, key, default) == IF key \in DOMAIN node THEN node[key] ELSE default

\* ast_util.matches: structural equality of two syntax trees.
matches(a, b) == a.src = b.src

\* The loop collecting arg_values_found from the definitions i, i+1, ...
RECURSIVE ArgValuesFound(_, _, _, _)
ArgValuesFound(defs, directive, arg, i) ==
  IF i > Len(defs) THEN <<>>
  ELSE LET directives == defs[i].directives
       IN IF directive \in DOMAIN directives /\ arg \in DOMAIN directives[directive]
            THEN <<directives[directive][arg]>> \o ArgValuesFound(defs, directive, arg, i + 1)
            ELSE ArgValuesFound(defs, directive, arg, i + 1)

Returned(value) == [status |-> "ok", value |-> value]

\* get_definition_directive returning the first value found without comparing
\* it with the others.
get_definition_directive_unchecked(node, directive, arg, default) ==
  LET defs == getanno(node, "ORIG_DEFINITIONS", <<>>)
      arg_values_found == ArgValuesFound(defs, directive, arg, 1)
  IN IF defs = <<>> THEN Returned(default)
     ELSE IF arg_values_found = <<>> THEN Returned(default)
     ELSE Returned(arg_values_found[1])

\* get_definition_directive reading the live definitions of a node that has
\* no original definitions.
get_definition_directive_live(node, directive, arg, default) ==
  LET defs == getanno(node, "ORIG_DEFINITIONS", getanno(node, "DEFINITIONS", <<>>))
      arg_values_found == ArgValuesFound(defs, directive, arg, 1)
      first_value == arg_values_found[1]
      mismatches == {i \in 2..Len(arg_values_found) : ~matches(first_value, arg_values_found[i])}
  IN IF defs = <<>> THEN Returned(default)
     ELSE IF arg_values_found = <<>> THEN Returned(default)
     ELSE IF Len(arg_values_found) = 1 THEN Returned(arg_values_found[1])
     ELSE IF mismatches # {}
       THEN LET i == CHOOSE k \in mismatches : \A j \in mismatches : k <= j
            IN [status |-> "ValueError", directive |-> directive, arg |-> arg,
                other_value |-> arg_values_found[i], first_value |-> first_value]
       ELSE Returned(first_value)

get_definition_directive(node, directive, arg, default) ==
  LET defs == getanno(node, "ORIG_DEFINITIONS", <<>>)
      arg_values_found == ArgValuesFound(defs, directive, arg, 1)
      first_value == arg_values_found[1]
      mismatches == {i \in 2..Len(arg_values_found) : ~matches(first_value, arg_values_found[i])}
  IN IF defs = <<>> THEN Returned(default)
     ELSE IF arg_values_found = <<>> THEN Returned(default)
     ELSE IF Len(arg_values_found) = 1 THEN Returned(arg_values_found[1])
     ELSE IF mismatches # {}
       THEN LET i == CHOOSE k \in mismatches : \A j \in mismatches : k <= j
            IN [status |-> "ValueError", directive |-> directive, arg |-> arg,
                other_value |-> arg_values_found[i], first_value |-> first_value]
       ELSE Returned(first_value)

NoCall == [status |-> "none"]

\* No directive lookup is under way: a node without annotations.
DirectiveIdle ==
  /\ dd_node = EmptyDict
  /\ dd_directive = "set_element_type"
  /\ dd_arg = "dtype"
  /\ dd_result = NoCall

\* The inputs of one call of get_definition_directive.
DirectiveInit ==
  /\ dd_node \in DirectiveNodes
  /\ dd_directive \in Directives
  /\ dd_arg \in Args
  /\ dd_result = NoCall

call_get_definition_directive ==
  /\ dd_result = NoCall
  /\ dd_result' = get_definition_directive(dd_node, dd_directive, dd_arg, Default)
  /\ UNCHANGED <<dd_node, dd_directive, dd_arg>>

NextDirective ==
  call_get_definition_directive /\ UNCHANGED <<visitVars, progVars, optVars, anVars, moVars>>


(***************************************************************************)
(* Feature and ConversionOptions. Python values are records with their     *)
(* type: a str never equals an enum member.                                *)
(***************************************************************************)
\* Feature.__members__: the member names, in definition order.
FeatureNames == <<"ALL", "AUTO_CONTROL_DEPS", "DECORATORS", "LISTS">>

Member(name) == [type |-> "Feature", name |-> name]

Str(s) == [type |-> "str", s |-> s]

\* The members of the enum Feature.
Feature == {Member(FeatureNames[i]) : i \in 1..Len(FeatureNames)}

PyNone == [type |-> "NoneType"]

Tuple(elts) == [type |-> "tuple", elts |-> elts]

PySet(elts) == [type |-> "set", elts |-> elts]

\* The elements of an iterable.
Elements(v) ==
  IF v.type = "tuple" THEN {v.elts[i] : i \in 1..Len(v.elts)} ELSE v.elts

\* Decorators a caller may strip, and the classes generated code refers to.
Decorators == {[type |-> "function", name |-> "dec1"], [type |-> "function", name |-> "dec2"]}

ConversionOptionsClass == [type |-> "class", name |-> "ConversionOptions"]

FeatureClass == [type |-> "class", name |-> "Feature"]

\* A namespace, as the set of the objects reachable from it. The members of
\* Feature are reachable through the class Feature.
Namespaces == SUBSET (Decorators \cup {ConversionOptionsClass, FeatureClass})

Reachable(namespace, o) ==
  IF o.type = "Feature" THEN FeatureClass \in namespace ELSE o \in namespace

\* The qualified name of an object in generated code.
QualifiedName(o) ==
  IF o.type = "Feature" THEN "ag__.Feature." \o o.name
  ELSE IF o.type = "class" THEN "ag__." \o o.name
  ELSE o.name

\* inspect_utils.getqualifiedname(namespace, o): the name, or None.
getqualifiedname(namespace, o) ==
  IF Reachable(namespace, o) THEN Str(QualifiedName(o)) ELSE PyNone

\* ConversionOptions.__init__
ConversionOptions(recursive, verbose, strip_decorators, force_conversion, optional_features) ==
  [recursive |-> recursive,
   verbose |-> verbose,
   strip_decorators |->
     IF strip_decorators = PyNone \/ strip_decorators = Tuple(<<>>)
       THEN Tuple(<<>>) ELSE strip_decorators,
   force_conversion |-> force_conversion,
   optional_features |->
     IF optional_features.type = "Feature"
       THEN {optional_features} ELSE Elements(optional_features)]

\* uses without the test for Feature.ALL.
uses_exact(self, feature) == feature \in self.optional_features

\* ConversionOptions.uses
uses(self, feature) ==
  Member("ALL") \in self.optional_features \/ feature \in self.optional_features

\* as_qualified_name without the test of the name found.
as_qualified_name_unchecked(namespace, o) ==
  LET name == getqualifiedname(namespace, o)
  IN [status |-> "ok", name |-> IF name = PyNone THEN Str("None") ELSE name]

\* to_ast.as_qualified_name: the name, or the ValueError raised.
as_qualified_name(namespace, o) ==
  LET name == getqualifiedname(namespace, o)
  IN IF name = PyNone \/ name = Str("")
       THEN [status |-> "ValueError", value |-> o]
       ELSE [status |-> "ok", name |-> name]

\* parser.parse_expression('({})'.format(', '.join(names))): the empty tuple
\* for no name, the name itself for one name (parentheses around a single
\* expression make no tuple), a tuple of names for more.
ParseParenthesized(names) ==
  IF Len(names) = 1 THEN [kind |-> "Name", id |-> names[1]]
  ELSE [kind |-> "Tuple", elts |-> names]

\* to_ast.list_of_names from value i on: the names, or the first ValueError.
RECURSIVE QualifiedNames(_, _, _)
QualifiedNames(namespace, values, i) ==
  IF i > Len(values) THEN [status |-> "ok", names |-> <<>>]
  ELSE LET head == as_qualified_name(namespace, values[i])
           rest == QualifiedNames(namespace, values, i + 1)
       IN IF head.status # "ok" THEN head
          ELSE IF rest.status # "ok" THEN rest
          ELSE [status |-> "ok", names |-> <<head.name.s>> \o rest.names]

\* to_ast.list_of_features from member name i on: the names v of
\* Feature.__members__ (strings) that are in values (a set of members).
RECURSIVE FeatureNamesIn(_, _)
FeatureNamesIn(values, i) ==
  IF i > Len(FeatureNames) THEN <<>>
  ELSE IF Str(FeatureNames[i]) \in values
    THEN <<"ag__.Feature." \o FeatureNames[i]>> \o FeatureNamesIn(values, i + 1)
    ELSE FeatureNamesIn(values, i + 1)

list_of_features(values) == ParseParenthesized(FeatureNamesIn(values, 1))

\* str(bool)
BoolStr(b) == IF b THEN "True" ELSE "False"

\* ConversionOptions.to_ast: the constructor call expression, or the
\* ValueError raised. The arguments of templates.replace are evaluated in order.
to_ast(self, namespace) ==
  LET constructor_name == as_qualified_name(namespace, ConversionOptionsClass)
      strip_decorators_val == QualifiedNames(namespace, self.strip_decorators.elts, 1)
  IN IF constructor_name.status # "ok" THEN constructor_name
     ELSE IF strip_decorators_val.status # "ok" THEN strip_decorators_val
     ELSE [status |-> "ok",
           func |-> constructor_name.name.s,
           recursive |-> BoolStr(self.recursive),
           verbose |-> BoolStr(self.verbose),
           strip_decorators |-> ParseParenthesized(strip_decorators_val.names),
           force_conversion |-> BoolStr(self.force_conversion),
           optional_features |-> list_of_features(self.optional_features)]

\* The objects a name may denote.
Denotable == Decorators \cup Feature \cup {ConversionOptionsClass, FeatureClass}

\* The value of a name in a namespace, or PyNone when it is not bound there.
Lookup(namespace, id) ==
  LET found == {o \in Denotable : Reachable(namespace, o) /\ QualifiedName(o) = id}
  IN IF found = {} THEN PyNone ELSE CHOOSE o \in found : TRUE

\* The value of a Name or Tuple expression in a namespace.
EvalExpr(namespace, e) ==
  IF e.kind = "Name" THEN Lookup(namespace, e.id)
  ELSE Tuple([i \in 1..Len(e.elts) |-> Lookup(namespace, e.elts[i])])

\* Evaluating the constructor call of to_ast in a namespace: the object it
\* builds, or the NameError of a name the namespace does not bind.
EvalCall(namespace, call) ==
  LET strip == EvalExpr(namespace, call.strip_decorators)
      features == EvalExpr(namespace, call.optional_features)
      unbound(v) == v = PyNone \/ (v.type = "tuple" /\ PyNone \in Elements(v))
  IN IF Lookup(namespace, call.func) # ConversionOptionsClass \/ unbound(strip) \/ unbound(features)
       THEN [status |-> "NameError"]
       ELSE [status |-> "ok",
             value |-> ConversionOptions(call.recursive = "True", call.verbose = "True",
                                         strip, call.force_conversion = "True", features)]

\* The optional_features arguments: one member, or a set of members.
FeatureArgs == Feature \cup {PySet(S) : S \in SUBSET Feature}

\* The strip_decorators arguments: None, or a tuple of decorators.
DecoratorArgs ==
  {PyNone} \cup {Tuple(t) : t \in UNION {[1..n -> Decorators] : n \in 0..MaxDecorators}}

\* ConversionOptions(): every argument at its default.
OptionsIdle ==
  /\ opt_features_arg = Member("ALL")
  /\ opts = ConversionOptions(FALSE, FALSE, PyNone, FALSE, Member("ALL"))
  /\ uses_result = NoCall
  /\ opt_ns = {}
  /\ opt_ast = NoCall
  /\ opts2 = NoCall

\* The options objects the constructor builds.
OptionsInit ==
  /\ opt_features_arg \in FeatureArgs
  /\ \E recursive \in BOOLEAN, verbose \in BOOLEAN, force_conversion \in BOOLEAN,
        strip_decorators \in DecoratorArgs :
       opts = ConversionOptions(recursive, verbose, strip_decorators, force_conversion,
                                opt_features_arg)
  /\ uses_result = NoCall
  /\ opt_ns = {}
  /\ opt_ast = NoCall
  /\ opts2 = NoCall

call_uses(feature) ==
  /\ opt_ast = NoCall
  /\ uses_result' = [status |-> "ok", feature |-> feature, value |-> uses(opts, feature)]
  /\ UNCHANGED <<opt_features_arg, opts, opt_ns, opt_ast, opts2>>

call_to_ast(namespace) ==
  /\ opt_ast = NoCall
  /\ opt_ns' = namespace
  /\ opt_ast' = to_ast(opts, namespace)
  /\ UNCHANGED <<opt_features_arg, opts, uses_result, opts2>>

\* The generated code evaluates the expression, against the same namespace.
eval_ast ==
  /\ opt_ast.status = "ok"
  /\ opts2 = NoCall
  /\ opts2' = EvalCall(opt_ns, opt_ast)
  /\ UNCHANGED <<opt_features_arg, opts, uses_result, opt_ns, opt_ast>>

NextOptions ==
  \/ \E feature \in Feature : call_uses(feature) /\ UNCHANGED <<visitVars, progVars, ddVars, anVars, moVars>>
  \/ \E namespace \in Namespaces : call_to_ast(namespace) /\ UNCHANGED <<visitVars, progVars, ddVars, anVars, moVars>>
  \/ eval_ast /\ UNCHANGED <<visitVars, progVars, ddVars, anVars, moVars>>


(***************************************************************************)
(* standard_analysis and apply_. The tree is given by its symbol nodes and *)
(* their annotations; an annotation of definitions is a tuple of           *)
(* AnnotatedDef objects, which the annotations share by reference.         *)
(***************************************************************************)
\* The symbol node of the entity as written, and one a pass may create.
AnalysisNodes == {"x", "x_1"}

\* The symbol nodes a pass may create.
CreatedNodes == AnalysisNodes \ {"x"}

\* The values the user gives a directive argument: two of different structure.
DirectiveValues == {v \in Values : v.id # 2}

\* The definition sites of the symbol in the tree.
Sites == {1, 2}

\* The steps of standard_analysis, in the order of the code.
AnalysisSteps ==
  <<"cfg.build", "qual_names.resolve", "activity.resolve",
    "reaching_definitions.resolve", "liveness.resolve", "live_values.resolve",
    "type_info.resolve", "live_values.resolve">>

\* Where a run of standard_analysis may fail: at no step (0), or at one of them.
FailPoints == 0..Len(AnalysisSteps)

\* The definitions reaching a node, as sites: what reaching_definitions.resolve
\* may find for it.
ReachingSites == {<<>>, <<1>>, <<2>>, <<1, 2>>}

\* What reaching_definitions.resolve may find for the nodes in a run that
\* fails at step fail_at: nothing when the run does not get past it.
ReachingResults(fail_at) ==
  IF fail_at \in 1..4 THEN {[n \in an_nodes |-> <<>>]} ELSE [an_nodes -> ReachingSites]

\* AnnotatedDef.__init__: a new definition has no directives.
NewAnnotatedDef == [directives |-> EmptyDict]

\* The AnnotatedDef objects of the annotation tuples in defs.
Referenced(defs) == UNION {{defs[n][i] : i \in 1..Len(defs[n])} : n \in DOMAIN defs}

\* anno.dup(node, {DEFINITIONS: ORIG_DEFINITIONS}): every node that has the
\* first annotation gets its value as the second.
dup(defs, orig) ==
  [n \in (DOMAIN orig) \cup (DOMAIN defs) |-> IF n \in DOMAIN defs THEN defs[n] ELSE orig[n]]

\* standard_analysis taking the snapshot whatever is_initial.
standard_analysis_always_dup(is_initial, fail_at, reaching) ==
  LET resolved == fail_at = 0 \/ fail_at > 4
      defs == IF resolved
                THEN [n \in an_nodes |->
                        [i \in 1..Len(reaching[n]) |-> <<an_runs + 1, reaching[n][i]>>]]
                ELSE an_defs
      orig == IF fail_at = 0 THEN dup(defs, an_orig) ELSE an_orig
  IN [status |-> IF fail_at = 0 THEN "ok" ELSE "error",
      trace |-> IF fail_at # 0 THEN SubSeq(AnalysisSteps, 1, fail_at - 1)
                ELSE AnalysisSteps \o <<"anno.dup">>,
      defs |-> defs,
      orig |-> orig,
      heap |-> [d \in Referenced(defs) \cup Referenced(orig) |->
                  IF d \in DOMAIN an_heap THEN an_heap[d] ELSE NewAnnotatedDef.directives]]

\* standard_analysis resolving live values once, after type info.
standard_analysis_one_live_values(is_initial, fail_at, reaching) ==
  LET resolved == fail_at = 0 \/ fail_at > 4
      steps == SubSeq(AnalysisSteps, 1, 5) \o SubSeq(AnalysisSteps, 7, 8)
      defs == IF resolved
                THEN [n \in an_nodes |->
                        [i \in 1..Len(reaching[n]) |-> <<an_runs + 1, reaching[n][i]>>]]
                ELSE an_defs
      orig == IF fail_at = 0 /\ is_initial THEN dup(defs, an_orig) ELSE an_orig
  IN [status |-> IF fail_at = 0 THEN "ok" ELSE "error",
      trace |-> IF fail_at # 0 THEN SubSeq(AnalysisSteps, 1, fail_at - 1)
                ELSE IF is_initial THEN steps \o <<"anno.dup">>
                ELSE steps,
      defs |-> defs,
      orig |-> orig,
      heap |-> [d \in Referenced(defs) \cup Referenced(orig) |->
                  IF d \in DOMAIN an_heap THEN an_heap[d] ELSE NewAnnotatedDef.directives]]

\* standard_analysis(node, context, is_initial) on the tree, failing at step
\* fail_at if that is not 0, with reaching_definitions.resolve finding the
\* definitions reaching[n] for node n: the steps run, the annotations left, and
\* the AnnotatedDef objects then in use.
standard_analysis(is_initial, fail_at, reaching) ==
  LET resolved == fail_at = 0 \/ fail_at > 4
      defs == IF resolved
                THEN [n \in an_nodes |->
                        [i \in 1..Len(reaching[n]) |-> <<an_runs + 1, reaching[n][i]>>]]
                ELSE an_defs
      orig == IF fail_at = 0 /\ is_initial THEN dup(defs, an_orig) ELSE an_orig
  IN [status |-> IF fail_at = 0 THEN "ok" ELSE "error",
      trace |-> IF fail_at # 0 THEN SubSeq(AnalysisSteps, 1, fail_at - 1)
                ELSE IF is_initial THEN AnalysisSteps \o <<"anno.dup">>
                ELSE AnalysisSteps,
      defs |-> defs,
      orig |-> orig,
      heap |-> [d \in Referenced(defs) \cup Referenced(orig) |->
                  IF d \in DOMAIN an_heap THEN an_heap[d] ELSE NewAnnotatedDef.directives]]

\* The entity's tree before any analysis.
AnalysisInit ==
  /\ an_nodes = {"x"}
  /\ an_defs = EmptyDict
  /\ an_orig = EmptyDict
  /\ an_heap = EmptyDict
  /\ an_runs = 0
  /\ an_result = [op |-> "none", status |-> "ok"]

call_standard_analysis(is_initial, fail_at, reaching) ==
  LET r == standard_analysis(is_initial, fail_at, reaching)
  IN /\ an_runs < MaxRuns
     /\ an_defs' = r.defs
     /\ an_orig' = r.orig
     /\ an_heap' = r.heap
     /\ an_runs' = an_runs + 1
     /\ an_result' = [op |-> "standard_analysis", status |-> r.status,
                      is_initial |-> is_initial, trace |-> r.trace]
     /\ UNCHANGED an_nodes

\* converter_module.transform(node, context): a pass rewrites the tree, which
\* may create symbol nodes; these carry no annotation.
transform(created) == an_nodes \cup created

\* apply_ running the pass whether or not the analysis failed.
apply_ignoring_failure(fail_at, reaching, created) ==
  LET r == standard_analysis(FALSE, fail_at, reaching)
  IN /\ an_runs < MaxRuns
     /\ an_defs' = r.defs
     /\ an_orig' = r.orig
     /\ an_heap' = r.heap
     /\ an_runs' = an_runs + 1
     /\ an_nodes' = transform(created)
     /\ an_result' = [op |-> "apply_", status |-> r.status, is_initial |-> FALSE,
                      trace |-> r.trace \o <<"transform">>]

\* apply_(node, context, converter_module)
apply_(fail_at, reaching, created) ==
  LET r == standard_analysis(FALSE, fail_at, reaching)
  IN /\ an_runs < MaxRuns
     /\ an_defs' = r.defs
     /\ an_orig' = r.orig
     /\ an_heap' = r.heap
     /\ an_runs' = an_runs + 1
     /\ an_nodes' = IF r.status = "ok" THEN transform(created) ELSE an_nodes
     /\ an_result' = [op |-> "apply_", status |-> r.status, is_initial |-> FALSE,
                      trace |-> IF r.status = "ok" THEN r.trace \o <<"transform">> ELSE r.trace]

\* The directives pass records a directive of the user on a definition that an
\* annotation of a node holds: def_.directives[directive] = {arg: value}.
set_directive(d, directive, arg, value) ==
  /\ d \in DOMAIN an_heap
  /\ an_heap' = [an_heap EXCEPT ![d] = DictPut(@, directive, DictPut(EmptyDict, arg, value))]
  /\ an_result' = [op |-> "set_directive", status |-> "ok"]
  /\ UNCHANGED <<an_nodes, an_defs, an_orig, an_runs>>

\* An annotation of definitions as its reader sees it: the AnnotatedDef
\* objects, each with the directives it has now.
DefObjects(ids) == [i \in 1..Len(ids) |-> [directives |-> an_heap[ids[i]]]]

\* A node of the analysed tree as get_definition_directive is given it: the
\* dict of its annotations, the live definitions and the original ones.
AnnotatedNode(n) ==
  IF n \in DOMAIN an_orig
    THEN IF n \in DOMAIN an_defs
           THEN [k \in {"DEFINITIONS", "ORIG_DEFINITIONS"} |->
                   IF k = "DEFINITIONS" THEN DefObjects(an_defs[n]) ELSE DefObjects(an_orig[n])]
           ELSE [k \in {"ORIG_DEFINITIONS"} |-> DefObjects(an_orig[n])]
    ELSE IF n \in DOMAIN an_defs
           THEN [k \in {"DEFINITIONS"} |-> DefObjects(an_defs[n])]
           ELSE EmptyDict

NextAnalysis ==
  \/ \E is_initial \in BOOLEAN, fail_at \in FailPoints :
       \E reaching \in ReachingResults(fail_at) :
       call_standard_analysis(is_initial, fail_at, reaching)
       /\ UNCHANGED <<visitVars, progVars, ddVars, optVars, moVars>>
  \/ \E fail_at \in FailPoints, created \in SUBSET CreatedNodes :
       \E reaching \in ReachingResults(fail_at) :
       apply_(fail_at, reaching, created)
       /\ UNCHANGED <<visitVars, progVars, ddVars, optVars, moVars>>
  \/ \E d \in DOMAIN an_heap, value \in DirectiveValues :
       set_directive(d, "set_element_type", "dtype", value)
       /\ UNCHANGED <<visitVars, progVars, ddVars, optVars, moVars>>

(***************************************************************************)
(* Specifications.                                                         *)
(***************************************************************************)
Init == BaseInit /\ ProgramContextInit /\ DirectiveIdle /\ OptionsIdle /\ AnalysisInit /\ MergeIdle

SpecVisit == Init /\ [][NextVisit]_vars

SpecProgram == Init /\ [][NextProgram]_vars

InitDirective ==
  BaseInit /\ ProgramContextInit /\ DirectiveInit /\ OptionsIdle /\ AnalysisInit /\ MergeIdle

SpecDirective == InitDirective /\ [][NextDirective]_vars

InitOptions ==
  BaseInit /\ ProgramContextInit /\ DirectiveIdle /\ OptionsInit /\ AnalysisInit /\ MergeIdle

SpecOptions == InitOptions /\ [][NextOptions]_vars

SpecAnalysis == Init /\ [][NextAnalysis]_vars

InitMerge ==
  BaseInit /\ ProgramContextInit /\ DirectiveIdle /\ OptionsIdle /\ AnalysisInit /\ MergeInit

SpecMerge == InitMerge /\ [][NextMerge]_vars

Next ==
  NextVisit \/ NextProgram \/ NextDirective \/ NextOptions \/ NextAnalysis \/ NextMerge

Spec == Init /\ [][Next]_vars

(***************************************************************************)
(* Claims about converter.Base.visit, checked under SpecVisit.             *)
(***************************************************************************)

\* C1: the first outermost call of visit is accepted; a nested call, made
\* inside an outermost call, is accepted whatever the used flag; every later
\* outermost call fails with the reuse error and does not visit the node.
C1_VisitSingleUse ==
  [][\A node \in Nodes : visit(node) =>
       /\ (vstack = <<>> /\ outer_calls = 0) =>
            (last_visit'.outcome = "accepted" /\ vstack' = <<node>>)
       /\ vstack # <<>> =>
            (last_visit'.outcome = "accepted" /\ vstack' = Append(vstack, node))
       /\ (vstack = <<>> /\ outer_calls > 0) =>
            (last_visit'.outcome = "reuse_error" /\ vstack' = vstack)]_vars

\* A second outermost call was refused after a first one that made nested calls.
C1_Witness ==
  /\ last_visit.outcome = "reuse_error"
  /\ outer_calls >= 2
  /\ vstack = <<>>

\* C18: a converter whose outermost visit fails, in the traversal or inside
\* nested visits, is consumed all the same. The depth counter is the number of
\* active calls of visit, so it is never negative and is 0 again when the
\* failure has left the outermost call; the used flag, once set, stays set;
\* and the next outermost visit fails with the reuse error, without visiting.
C18_FailedVisitConsumes ==
  /\ [](ast_depth = Len(vstack) /\ ast_depth >= 0)
  /\ [][used => used']_vars
  /\ []((last_visit.outcome = "raised" /\ vstack = <<>>) => (used /\ ast_depth = 0))
  /\ [][(last_visit.outcome = "raised" /\ vstack = <<>>) =>
          \A node \in Nodes : visit(node) =>
            /\ last_visit'.outcome = "reuse_error"
            /\ UNCHANGED <<used, ast_depth, vstack>>]_vars

\* The first outermost visit failed: the
\* exception has left the outermost call, no call is active and the converter
\* is used.
C18_Witness ==
  /\ last_visit.outcome = "raised"
  /\ last_visit.depth = 1
  /\ vstack = <<>>
  /\ outer_calls = 1
  /\ used
  /\ ast_depth = 0

(***************************************************************************)
(* Claims about ProgramContext, checked under SpecProgram.                 *)
(***************************************************************************)
IsPrefix(s, t) == Len(s) <= Len(t) /\ \A i \in 1..Len(s) : s[i] = t[i]

NameMapPairs == {<<o, name_map[o]>> : o \in DOMAIN name_map}

\* C2: name_map gives each entity at most one name, and a name once given to
\* an entity is never changed or removed, whether update_name_map succeeds or
\* fails.
C2_NameMapStable ==
  /\ [](\A p, q \in NameMapPairs : p[1] = q[1] => p[2] = q[2])
  /\ [][\A o \in DOMAIN name_map :
          o \in DOMAIN name_map' /\ name_map'[o] = name_map[o]]_vars

\* An update_name_map call failed on an entity that keeps its earlier name.
C2_Witness ==
  /\ prog_result.op = "update_name_map"
  /\ prog_result.status = "ValueError"
  /\ prog_result.entity \in DOMAIN name_map
  /\ name_map[prog_result.entity] = prog_result.names[2]

\* Some pair of the namer gives an entity of name_map a different name.
Conflicts(nm, namer) ==
  \E i \in 1..Len(namer) : namer[i][1] \in DOMAIN nm /\ nm[namer[i][1]] # namer[i][2]

\* nm plus the namer's pairs for the entities nm does not have.
Merged(nm, namer) ==
  [o \in (DOMAIN nm) \cup {namer[i][1] : i \in 1..Len(namer)} |->
     IF o \in DOMAIN nm THEN nm[o]
     ELSE namer[CHOOSE i \in 1..Len(namer) : namer[i][1] = o][2]]

\* C3: update_name_map(namer) succeeds exactly when no pair of the namer gives
\* an entity already in name_map a different name; on success name_map is the
\* previous map plus the namer's pairs for the absent entities.
C3_UpdateNameMap ==
  [][\A namer \in Namers : update_name_map(namer) =>
       /\ (prog_result'.status = "ok") <=> ~Conflicts(name_map, namer)
       /\ ~Conflicts(name_map, namer) => name_map' = Merged(name_map, namer)]_vars

\* B was recorded as B_2 and a later merge renaming it to B_3 failed.
C3_Witness ==
  /\ prog_result.op = "update_name_map"
  /\ prog_result.status = "ValueError"
  /\ prog_result.entity = "B"
  /\ prog_result.names = <<"B_3", "B_2">>
  /\ "B" \in DOMAIN name_map
  /\ name_map["B"] = "B_2"

\* C8: a read of required_imports gives the boilerplate import statements
\* followed by the current contents of additional_imports, joined by newlines,
\* and the read changes no ProgramContext state.
C8_RequiredImports ==
  /\ [](prog_result.op = "required_imports" =>
          \E order \in Orderings(additional_imports) :
            prog_result.value = Join("\n", COMPILED_IMPORT_STATEMENTS \o order))
  /\ [][required_imports =>
          UNCHANGED <<name_map, conversion_order, dependency_cache,
                      additional_imports>>]_vars

\* required_imports was read with both imports added.
C8_Witness ==
  /\ prog_result.op = "required_imports"
  /\ additional_imports = Imports

\* The last tree passed to add_to_cache for entity e.
LastTree(e) ==
  LET last == CHOOSE i \in 1..Len(cache_calls) :
                /\ cache_calls[i][1] = e
                /\ \A j \in (i + 1)..Len(cache_calls) : cache_calls[j][1] # e
  IN cache_calls[last][2]

\* C9: conversion_order is the sequence of the entities passed to add_to_cache,
\* in call order and append-only, and dependency_cache maps each of them to the
\* tree of its most recent call.
C9_CacheOrder ==
  /\ [](/\ conversion_order = [i \in 1..Len(cache_calls) |-> cache_calls[i][1]]
        /\ DOMAIN dependency_cache = {cache_calls[i][1] : i \in 1..Len(cache_calls)}
        /\ \A e \in DOMAIN dependency_cache : dependency_cache[e] = LastTree(e))
  /\ [][IsPrefix(conversion_order, conversion_order')]_vars

\* The same entity was added twice, with different trees.
C9_Witness ==
  /\ Len(cache_calls) = 2
  /\ cache_calls[1][1] = cache_calls[2][1]
  /\ cache_calls[1][2] # cache_calls[2][2]
  /\ conversion_order = <<cache_calls[1][1], cache_calls[1][1]>>
  /\ dependency_cache[cache_calls[1][1]] = cache_calls[2][2]

\* C15, as claimed: an entry of dependency_cache, once recorded for an entity,
\* is never replaced by a different tree.
C15_AsClaimed ==
  [][\A e \in DOMAIN dependency_cache :
       e \in DOMAIN dependency_cache' /\ dependency_cache'[e] = dependency_cache[e]]_vars

\* C15, amended: dependency_cache holds one entry per entity; an entry is
\* never removed, and it changes only in a call of add_to_cache for its own
\* entity, which replaces it by the tree of that call.
C15_CacheReplacedOnlyByAdd ==
  [][\A e \in DOMAIN dependency_cache :
       /\ e \in DOMAIN dependency_cache'
       /\ dependency_cache'[e] # dependency_cache[e] =>
            cache_calls' = Append(cache_calls, <<e, dependency_cache'[e]>>)]_vars

\* A was added with tree t1 and then with tree t2, which replaced t1.
C15_Witness ==
  /\ cache_calls = <<<<"A", "t1">>, <<"A", "t2">>>>
  /\ dependency_cache = DictPut(EmptyDict, "A", "t2")

\* C16: new_namer changes no state of the ProgramContext, and the namer it
\* returns starts from the name_map of the time of the call, with the renames
\* merged by earlier update_name_map calls.
C16_NewNamer ==
  [][prog_result'.op = "new_namer" =>
       /\ UNCHANGED <<name_map, conversion_order, dependency_cache, additional_imports>>
       /\ prog_result'.namer.renamed_calls = name_map]_vars

\* A namer was made after a merge recorded B as B_2, and it has that rename.
C16_Witness ==
  /\ prog_result.op = "new_namer"
  /\ "B" \in DOMAIN name_map
  /\ "B" \in DOMAIN prog_result.namer.renamed_calls
  /\ prog_result.namer.renamed_calls["B"] = "B_2"

\* Some entity was passed to add_to_cache more than once.
AddedTwice ==
  \E i, j \in 1..Len(cache_calls) : i # j /\ cache_calls[i][1] = cache_calls[j][1]

\* C17: the entities in conversion_order are the keys of dependency_cache;
\* conversion_order is at least as long as the cache has entries, and as long
\* exactly when no entity was added twice; update_name_map, new_namer and
\* reads of required_imports change neither.
C17_OrderMatchesCache ==
  /\ [](/\ {conversion_order[i] : i \in 1..Len(conversion_order)} = DOMAIN dependency_cache
        /\ Len(conversion_order) >= Cardinality(DOMAIN dependency_cache)
        /\ (Len(conversion_order) = Cardinality(DOMAIN dependency_cache)) <=> ~AddedTwice)
  /\ [][prog_result'.op \in {"update_name_map", "new_namer", "required_imports"} =>
          UNCHANGED <<conversion_order, dependency_cache>>]_vars

\* After B was added twice, a namer was made: conversion_order has two
\* records and the cache one entry.
C17_Witness ==
  /\ prog_result.op = "new_namer"
  /\ conversion_order = <<"B", "B">>
  /\ DOMAIN dependency_cache = {"B"}

(***************************************************************************)
(* Claims about the merge of two namers, checked under SpecMerge.          *)
(***************************************************************************)
\* Context c made both of its calls.
Finished(c) == Len(mo_ctx[c].results) = 2

\* One of the calls made on context c hit a naming conflict.
HitConflict(c) ==
  \E k \in 1..Len(mo_ctx[c].results) : mo_ctx[c].results[k].status = "ValueError"

\* C11: merging N1 then N2 hits a naming conflict, in either call, exactly
\* when merging N2 then N1 does; when both orders succeed they leave the same
\* name_map.
C11_MergeOrderIndependent ==
  (Finished(1) /\ Finished(2)) =>
    /\ HitConflict(1) <=> HitConflict(2)
    /\ (~HitConflict(1) /\ ~HitConflict(2)) => mo_ctx[1].name_map = mo_ctx[2].name_map

\* Two namers that rename different entities were merged in both orders
\* without conflict, and both contexts hold both renames.
C11_Witness ==
  /\ Finished(1) /\ Finished(2)
  /\ ~HitConflict(1) /\ ~HitConflict(2)
  /\ Len(mo_namers[1]) = 1 /\ Len(mo_namers[2]) = 1
  /\ mo_namers[1][1][1] # mo_namers[2][1][1]
  /\ mo_init = EmptyDict
  /\ DOMAIN mo_ctx[1].name_map = Entities
  /\ mo_ctx[1].name_map = mo_ctx[2].name_map

\* The first pair of the namer that gives an entity of nm a different name;
\* 0 when there is none.
FirstConflict(nm, namer) ==
  IF Conflicts(nm, namer)
    THEN CHOOSE i \in 1..Len(namer) :
           /\ namer[i][1] \in DOMAIN nm /\ nm[namer[i][1]] # namer[i][2]
           /\ \A j \in 1..(i - 1) : ~(namer[j][1] \in DOMAIN nm /\ nm[namer[j][1]] # namer[j][2])
    ELSE 0

\* C12: a call of update_name_map that gives a second, different name to an
\* entity already in name_map fails with the naming-conflict error for that
\* entity; the entity keeps its earlier name, the pairs of the call before the
\* conflicting one are merged and stay merged, and nothing else is added or
\* changed.
C12_ConflictNoRollback ==
  \A c \in {1, 2} :
    (Len(mo_ctx[c].results) = 1 /\ Conflicts(mo_init, NamerOf(c, 1))) =>
      LET namer == NamerOf(c, 1)
          i == FirstConflict(mo_init, namer)
          result == mo_ctx[c].results[1]
      IN /\ result.status = "ValueError"
         /\ result.entity = namer[i][1]
         /\ result.names = <<namer[i][2], mo_init[namer[i][1]]>>
         /\ mo_ctx[c].name_map[namer[i][1]] = mo_init[namer[i][1]]
         /\ mo_ctx[c].name_map = Merged(mo_init, SubSeq(namer, 1, i - 1))

\* A call failed on its second pair after its first pair added an entity,
\* which is in name_map after the failure.
C12_Witness ==
  /\ Len(mo_ctx[1].results) = 1
  /\ mo_ctx[1].results[1].status = "ValueError"
  /\ Len(mo_namers[1]) = 2
  /\ mo_ctx[1].results[1].entity = mo_namers[1][2][1]
  /\ mo_namers[1][1][1] \notin DOMAIN mo_init
  /\ mo_namers[1][1][1] \in DOMAIN mo_ctx[1].name_map
  /\ mo_ctx[1].name_map # mo_init

(***************************************************************************)
(* Claims about get_definition_directive, checked under SpecDirective.     *)
(***************************************************************************)
OrigDefs == IF "ORIG_DEFINITIONS" \in DOMAIN dd_node THEN dd_node["ORIG_DEFINITIONS"] ELSE <<>>

\* The original definitions that carry the directive asked about with the
\* argument asked about.
Supplying ==
  {i \in 1..Len(OrigDefs) :
     /\ dd_directive \in DOMAIN OrigDefs[i].directives
     /\ dd_arg \in DOMAIN OrigDefs[i].directives[dd_directive]}

SuppliedValue(i) == OrigDefs[i].directives[dd_directive][dd_arg]

\* C4: get_definition_directive returns default when no original definition
\* supplies the directive argument, the value when exactly one does, the first
\* value found when several supply structurally equal values, and fails when
\* two supplied values differ in structure.
C4_DirectiveResolution ==
  dd_result # NoCall =>
    /\ Supplying = {} => dd_result = Returned(Default)
    /\ Cardinality(Supplying) = 1 =>
         \A i \in Supplying : dd_result = Returned(SuppliedValue(i))
    /\ (/\ Cardinality(Supplying) > 1
        /\ \A i, j \in Supplying : SuppliedValue(i).src = SuppliedValue(j).src) =>
         \A i \in Supplying :
           (\A j \in Supplying : i <= j) => dd_result = Returned(SuppliedValue(i))
    /\ (\E i, j \in Supplying : SuppliedValue(i).src # SuppliedValue(j).src) =>
         dd_result.status = "ValueError"

\* Three definitions supplied values; the first two are equal in structure, the
\* third differs, and the call failed.
C4_Witness ==
  /\ dd_result.status = "ValueError"
  /\ Cardinality(Supplying) = 3
  /\ SuppliedValue(1).src = SuppliedValue(2).src
  /\ SuppliedValue(1).id # SuppliedValue(2).id
  /\ SuppliedValue(1).src # SuppliedValue(3).src

(***************************************************************************)
(* Claims about ConversionOptions, checked under SpecOptions.              *)
(***************************************************************************)

\* Every value the options use is reachable from the namespace: the class
\* ConversionOptions, the stripped decorators and the features present.
AllResolvable(self, namespace) ==
  /\ Reachable(namespace, ConversionOptionsClass)
  /\ \A d \in Elements(self.strip_decorators) : Reachable(namespace, d)
  /\ \A f \in self.optional_features : Reachable(namespace, f)

\* C5: round trip. When every value the options use is resolvable in the
\* namespace, evaluating the expression of to_ast gives an options object with
\* the same recursive, verbose and force_conversion and the same uses(f) for
\* every feature f.
C5_RoundTrip ==
  (opts2 # NoCall /\ AllResolvable(opts, opt_ns)) =>
    /\ opts2.status = "ok"
    /\ opts2.value.recursive = opts.recursive
    /\ opts2.value.verbose = opts.verbose
    /\ opts2.value.force_conversion = opts.force_conversion
    /\ \A f \in Feature : uses(opts2.value, f) = uses(opts, f)

\* The features the options were asked to be built with.
GivenFeatures ==
  IF opt_features_arg.type = "Feature" THEN {opt_features_arg} ELSE opt_features_arg.elts

\* C6: uses(f) is true exactly when Feature.ALL or f is among the features the
\* options were built with, given as one member or as a set.
C6_Uses ==
  uses_result # NoCall =>
    (uses_result.value <=>
       (Member("ALL") \in GivenFeatures \/ uses_result.feature \in GivenFeatures))

\* Options built with the single member ALL answer true for LISTS.
C6_Witness ==
  /\ uses_result # NoCall
  /\ opt_features_arg = Member("ALL")
  /\ uses_result.feature = Member("LISTS")
  /\ uses_result.value

LookedUp == <<ConversionOptionsClass>> \o opts.strip_decorators.elts

NonInitialStep ==
  \/ an_result'.op = "apply_"
  \/ an_result'.op = "standard_analysis" /\ ~an_result'.is_initial

\* The answer get_definition_directive gives for node n.
DirectiveAnswer(n, directive, arg) ==
  get_definition_directive(AnnotatedNode(n), directive, arg, Default)

ClaimedOrder ==
  <<"cfg.build", "qual_names.resolve", "activity.resolve",
    "reaching_definitions.resolve", "liveness.resolve", "live_values.resolve",
    "type_info.resolve", "live_values.resolve">>

\* The steps the last run of standard_analysis completed, called directly or
\* by apply_.
AnalysisTrace ==
  IF an_result.op = "apply_" /\ an_result.status = "ok"
    THEN SubSeq(an_result.trace, 1, Len(an_result.trace) - 1)
    ELSE an_result.trace

\* The positions of a step in a sequence of steps.
Positions(trace, step) == {i \in 1..Len(trace) : trace[i] = step}

\* C13: every run of standard_analysis makes its steps in one order: control
\* flow graph, qualified names, activity, reaching definitions, liveness, live
\* values, type info, live values again, and then, only when is_initial is
\* true, the snapshot of the definitions. Live values are resolved exactly
\* twice, once before and once after type info; a run that fails has made a
\* prefix of the steps and takes no snapshot.
C13_AnalysisOrder ==
  an_result.op \in {"standard_analysis", "apply_"} =>
    /\ an_result.status = "ok" =>
          /\ AnalysisTrace = IF an_result.is_initial
                               THEN ClaimedOrder \o <<"anno.dup">>
                               ELSE ClaimedOrder
          /\ Cardinality(Positions(AnalysisTrace, "live_values.resolve")) = 2
          /\ \E i, j \in Positions(AnalysisTrace, "live_values.resolve"),
                 t \in Positions(AnalysisTrace, "type_info.resolve") : i < t /\ t < j
    /\ an_result.status # "ok" =>
          /\ Len(AnalysisTrace) < Len(ClaimedOrder)
          /\ IsPrefix(AnalysisTrace, ClaimedOrder)
    /\ ~an_result.is_initial => Positions(AnalysisTrace, "anno.dup") = {}

\* An initial run completed: its ninth and last step was the snapshot, and the
\* node has original definitions.
C13_Witness ==
  /\ an_result.op = "standard_analysis"
  /\ an_result.status = "ok"
  /\ an_result.is_initial
  /\ Len(an_result.trace) = 9
  /\ an_result.trace[9] = "anno.dup"
  /\ "x" \in DOMAIN an_orig

\* C14: apply_ runs the whole analysis as a non-initial one and only then the
\* pass, whose result is the tree it returns; when a step of the analysis
\* fails, apply_ fails, the pass is not run and the tree is not rewritten.
C14_ApplyAfterAnalysis ==
  [][an_result'.op = "apply_" =>
       /\ ~an_result'.is_initial
       /\ an_orig' = an_orig
       /\ an_result'.status = "ok" =>
             /\ an_result'.trace = ClaimedOrder \o <<"transform">>
             /\ \E created \in SUBSET CreatedNodes : an_nodes' = transform(created)
       /\ an_result'.status # "ok" =>
             /\ Positions(an_result'.trace, "transform") = {}
             /\ IsPrefix(an_result'.trace, ClaimedOrder)
             /\ Len(an_result'.trace) < Len(ClaimedOrder)
             /\ an_nodes' = an_nodes]_vars

\* apply_ failed in the second resolution of live values, after the reaching
\* definitions were recomputed: the pass was not run.
C14_Witness ==
  /\ an_result.op = "apply_"
  /\ an_result.status = "error"
  /\ Len(an_result.trace) = 7
  /\ an_nodes = {"x"}
  /\ "x" \in DOMAIN an_defs

\* Two nodes, given as their annotations, have equal original definitions:
\* both have none, or both the same ones with the same directives.
SameOrig(node1, node2) ==
  /\ ("ORIG_DEFINITIONS" \in DOMAIN node1) <=> ("ORIG_DEFINITIONS" \in DOMAIN node2)
  /\ "ORIG_DEFINITIONS" \in DOMAIN node1 =>
       node1["ORIG_DEFINITIONS"] = node2["ORIG_DEFINITIONS"]

\* The live definitions of node n with their directives.
LiveAnnotation(n) == getanno(AnnotatedNode(n), "DEFINITIONS", <<>>)

\* One of the live definitions of node n carries the directive argument.
LiveCarries(n, directive, arg) ==
  \E i \in 1..Len(LiveAnnotation(n)) :
    /\ directive \in DOMAIN LiveAnnotation(n)[i].directives
    /\ arg \in DOMAIN LiveAnnotation(n)[i].directives[directive]

\* The node carrying its original definitions only, without the live ones.
WithoutLive(node) == [k \in (DOMAIN node) \ {"DEFINITIONS"} |-> node[k]]

\* C19: the answer of get_definition_directive depends on the original
\* definitions of the node only, never on the live ones. A node gets the
\* answer it would get without its live definitions, so two nodes with equal
\* original definitions get the same answer whatever their live definitions
\* are; a node without original definitions (its tree was never analysed as
\* initial, or a pass created it after the initial analysis) gets the
\* default, also when its live definitions carry the directive.
C19_OnlyOrigDefinitions ==
  \A directive \in Directives, arg \in Args :
    /\ \A n \in an_nodes :
         /\ DirectiveAnswer(n, directive, arg) =
              get_definition_directive(WithoutLive(AnnotatedNode(n)), directive, arg, Default)
         /\ n \notin DOMAIN an_orig => DirectiveAnswer(n, directive, arg) = Returned(Default)
    /\ (an_nodes = AnalysisNodes /\ SameOrig(AnnotatedNode("x"), AnnotatedNode("x_1"))) =>
         DirectiveAnswer("x", directive, arg) = DirectiveAnswer("x_1", directive, arg)

\* The tree was analysed, but never as initial, and a live definition of x
\* carries the directive: x has no original definitions and gets the default.
C19_Witness ==
  /\ "x" \in DOMAIN an_defs
  /\ "x" \notin DOMAIN an_orig
  /\ LiveCarries("x", "set_element_type", "dtype")
  /\ DirectiveAnswer("x", "set_element_type", "dtype") = Returned(Default)

====
